---- MODULE Spec2Model ----
(***************************************************************************)
(* State-machine model of the llm_agents orchestration core:               *)
(*   - AdvancedTool.use and EnhancedToolManager (tools/advanced_tool.py,   *)
(*     tools/enhanced_tool_manager.py)          -> specification Spec      *)
(*   - Memory and AgentMemory (agent.py, advanced_agent.py)                *)
(*                                              -> specification MemSpec   *)
(*   - EnhancedAgent.run (agent.py)             -> specification EnhSpec   *)
(*   - AdvancedAgent.run (advanced_agent.py)    -> specification AdvSpec   *)
(* Every specification shares the one set of variables; the variables of   *)
(* the components a specification does not drive stay at their initial     *)
(* value.                                                                  *)
(***************************************************************************)
EXTENDS Integers, Sequences, FiniteSets, TLC

VARIABLES
    \* ---- EnhancedToolManager / AdvancedTool ----
    tools,          \* registry: tool name -> the AdvancedTool's configuration fields
    result_cache,   \* tool name -> AdvancedTool.result_cache (raw input -> result)
    tool_stats,     \* tool name -> ToolStats counters
    tool_chains,    \* chain name -> list of tool names
    mgr,            \* frame of the running execute_tool / execute_tool_chain call
    use,            \* frame of the running AdvancedTool.use call
    outcome,        \* what the finished manager call handed to its caller
    obs,            \* observation of the running manager call (invocation counters)
    first_out,      \* observation: per caching tool and raw input, what the first
                    \* use() that returned since the last clear_cache gave back
    \* ---- Memory / AgentMemory ----
    mem_cfg,        \* the store's class (Memory or AgentMemory) and its capacities
    short_term,     \* .short_term
    long_term,      \* .long_term
    embeddings,     \* AgentMemory.embeddings, an insertion-ordered dict
    clock,          \* datetime.now(), one tick per entry
    added,          \* observation: the timestamps of every entry handed to each list
    relevant,       \* the latest get_relevant_memory call and what it returned
    \* ---- EnhancedAgent ----
    enh,            \* EnhancedAgent fields and the frame of run
    enh_out,        \* what the finished EnhancedAgent.run handed to its caller
    \* ---- AdvancedAgent ----
    adv,            \* AdvancedAgent fields and the frame of run
    adv_out,        \* what the finished AdvancedAgent.run handed to its caller
    \* ---- EnhancedAgent.decide_next_action on its own ----
    llm_text,       \* the text llm.generate returned (generated)
    parsed          \* what _parse made of it

toolVars == <<tools, result_cache, tool_stats, tool_chains, mgr, use, outcome, obs,
              first_out>>
memVars  == <<mem_cfg, short_term, long_term, embeddings, clock, added, relevant>>
enhVars  == <<enh, enh_out>>
advVars  == <<adv, adv_out>>
parseVars == <<llm_text, parsed>>
vars == <<toolVars, memVars, enhVars, advVars, parseVars>>

----------------------------------------------------------------------------
(* Bounds of the model *)

\* largest max_retries a tool is configured with
MaxRetries == 2
\* ToolStats usage a manager may have accumulated when a new call is accepted
MaxCalls == 2
\* largest max_short_term / max_long_term a store is configured with
MaxCap == 2
\* entries handed to one store
MaxAdds == 4
\* largest max_loops an agent is configured with
MaxLoops == 2
\* run() calls made on one agent
MaxRuns == 2
\* segments a model text handed to _parse alone is made of
MaxSegments == 3

(* Program constants *)

\* AdvancedTool.timeout default
ToolTimeout == 30
\* AdvancedAgent.max_loops default
AdvDefaultMaxLoops == 20
\* AdvancedAgent._calculate_confidence, 0.9 in hundredths
Confidence == 90
\* AdvancedAgent.confidence_threshold default, 0.7 in hundredths
DefaultThreshold == 70

----------------------------------------------------------------------------
(* Strings the model works on *)

\* raw inputs and tool outputs
Vals == {"x", "X", "y"}
\* absent value (Python None)
None == "None"

\* str.lower on Vals, a pre-processor a tool may carry
Lower(s) == IF s = "X" THEN "x" ELSE s
\* str.upper on Vals, a post-processor a tool may carry
Upper(s) == IF s = "x" THEN "X" ELSE s

\* An exception object. tool_name / error_type are attributes only ToolError has.
Exc(type, message, tool_name, error_type) ==
    [type |-> type, message |-> message, tool_name |-> tool_name,
     error_type |-> error_type]
PlainExc(type, message) == Exc(type, message, None, None)
NoExc == Exc(None, "", None, None)

\* Processors: Callable[[str], str]; "strict" raises on "y".
Processors == {"lower", "upper", "strict"}
ProcRaises(p, s) == p = "strict" /\ s = "y"
ProcApply(p, s) ==
    CASE p = "lower" -> Lower(s)
      [] p = "upper" -> Upper(s)
      [] OTHER -> s

\* for processor in processors: value = processor(value)
\* result: [ok |-> TRUE, value] or [ok |-> FALSE, value |-> None] when one raised
RECURSIVE ApplyAll(_, _)
ApplyAll(ps, s) ==
    IF ps = <<>> THEN [ok |-> TRUE, value |-> s]
    ELSE IF ProcRaises(Head(ps), s) THEN [ok |-> FALSE, value |-> None]
    ELSE ApplyAll(Tail(ps), ProcApply(Head(ps), s))

\* what a processor raises, and str() of it
ProcErrorText == "rejected"
ProcError == PlainExc("ValueError", ProcErrorText)

----------------------------------------------------------------------------
(* EnhancedToolManager and AdvancedTool *)

ToolNames == {"Fetch", "Summarize"}
ChainNames == {"pipeline"}
\* chain name nobody defines
NoChain == "nochain"

\* the tool lists define_tool_chain is called with
ChainChoices ==
    { <<"Fetch", "Summarize">>, <<"Summarize", "Fetch">>, <<"Fetch", "Fetch">> }

\* AdvancedTool fields a subclass or its owner sets (advanced_tool.py:38-43)
ToolConfig(n, c, pre, post) ==
    [max_retries |-> n, cache_results |-> c, pre_processors |-> pre,
     post_processors |-> post]

\* the processor lists a tool comes with: none, or a validating and normalising
\* list on either side
ProcessorChoices ==
    { [pre |-> <<>>, post |-> <<>>],
      [pre |-> <<"strict", "lower">>, post |-> <<"upper", "strict">>] }

\* registries the manager is constructed with: "Fetch" alone in every
\* configuration ("Summarize" is then a name the registry lacks), or both tools
\* without processors
Registries ==
    { [t \in {"Fetch"} |-> ToolConfig(n, c, pp.pre, pp.post)] :
        n \in 0..MaxRetries, c \in BOOLEAN, pp \in ProcessorChoices }
    \cup
    { [t \in ToolNames |-> ToolConfig(n, IF t = "Fetch" THEN c ELSE TRUE, <<>>, <<>>)] :
        n \in 1..MaxRetries, c \in BOOLEAN }

\* ToolStats() (enhanced_tool_manager.py:7-12); last_used and
\* average_response_time are wall-clock values no claim reads
NewToolStats == [usage_count |-> 0, success_count |-> 0, error_count |-> 0]

IdleMgr == [pc |-> "idle", op |-> None, chain_name |-> None, idx |-> 0,
            tool_name |-> None, initial_input |-> None, current_input |-> None]
NoUse == [pc |-> "none", tool |-> None, input_text |-> None,
          processed_input |-> None, attempt |-> 0, last_error |-> None,
          result |-> None, exc |-> NoExc]
NoOutcome == [kind |-> "none", value |-> None, exc |-> NoExc]
Returned(v) == [kind |-> "return", value |-> v, exc |-> NoExc]
Raised(e) == [kind |-> "raise", value |-> None, exc |-> e]

\* observation of one manager call: the statistics when it began, the number of
\* _execute invocations per tool, every use() call made with what it received
\* (uses) and gave back (outs), the chain position of the first use() that raised,
\* and of the latest use() call its attempts, its sleeps and whether the cache
\* answered it
NewObs(stats) ==
    [stats0 |-> stats, execs |-> [t \in ToolNames |-> 0], uses |-> <<>>, outs |-> <<>>,
     first_fail |-> 0, attempts |-> <<>>, sleeps |-> 0, hit |-> FALSE]

InitTools ==
    /\ tools \in Registries
    /\ result_cache = [t \in DOMAIN tools |-> <<>>]
    /\ tool_stats = [t \in DOMAIN tools |-> NewToolStats]
    /\ tool_chains = <<>>
    /\ mgr = IdleMgr
    /\ use = NoUse
    /\ outcome = NoOutcome
    /\ obs = NewObs([t \in DOMAIN tools |-> NewToolStats])
    /\ first_out = [t \in DOMAIN tools |-> <<>>]

\* dict[key] = value
DictPut(d, k, v) == [y \in DOMAIN d \cup {k} |-> IF y = k THEN v ELSE d[y]]

TotalUsage == LET RECURSIVE Sum(_)
                  Sum(S) == IF S = {} THEN 0
                            ELSE LET t == CHOOSE t \in S : TRUE
                                 IN tool_stats[t].usage_count + Sum(S \ {t})
              IN Sum(DOMAIN tool_stats)

\* the frame of tool.use(input_text) as it is entered
EnterUse(t, x) == [NoUse EXCEPT !.pc = "begin", !.tool = t, !.input_text = x]

\* EnhancedToolManager.define_tool_chain
DefineToolChain(name, names) ==
    /\ mgr.pc = "idle"
    /\ tool_chains' = DictPut(tool_chains, name, names)
    /\ UNCHANGED <<first_out, tools, result_cache, tool_stats, mgr, use, outcome, obs>>
    /\ UNCHANGED <<memVars, enhVars, advVars, parseVars>>

\* AdvancedTool.clear_cache
ClearCache(t) ==
    /\ mgr.pc = "idle"
    /\ t \in DOMAIN tools
    /\ DOMAIN result_cache[t] # {}
    /\ result_cache' = [result_cache EXCEPT ![t] = <<>>]
    /\ first_out' = [first_out EXCEPT ![t] = <<>>]
    /\ UNCHANGED <<tools, tool_stats, tool_chains, mgr, use, outcome, obs>>
    /\ UNCHANGED <<memVars, enhVars, advVars, parseVars>>

\* EnhancedToolManager.execute_tool, up to the call of tool.use
ExecuteTool(tool_name, input_text) ==
    /\ mgr.pc = "idle"
    /\ TotalUsage < MaxCalls
    /\ obs' = NewObs(tool_stats)
    /\ IF tool_name \notin DOMAIN tools
       THEN /\ outcome' = Raised(PlainExc("ValueError",
                                 "Tool '" \o tool_name \o "' not found"))
            /\ mgr' = [IdleMgr EXCEPT !.pc = "done", !.op = "execute_tool",
                                      !.tool_name = tool_name]
            /\ use' = NoUse
       ELSE /\ mgr' = [IdleMgr EXCEPT !.pc = "in_use", !.op = "execute_tool",
                                      !.tool_name = tool_name,
                                      !.initial_input = input_text,
                                      !.current_input = input_text]
            /\ use' = EnterUse(tool_name, input_text)
            /\ outcome' = NoOutcome
    /\ UNCHANGED <<first_out, tools, result_cache, tool_stats, tool_chains>>
    /\ UNCHANGED <<memVars, enhVars, advVars, parseVars>>

\* a lookup that answers an undefined chain name with None instead of raising
ChainNotFoundSilent(chain_name) == Returned(None)

\* execute_tool_chain, line 32: the error for a chain name nobody defined
ChainNotFound(chain_name) ==
    Raised(PlainExc("ValueError", "Tool chain '" \o chain_name \o "' not found"))

\* EnhancedToolManager.execute_tool_chain, lines 31-34: the chain lookup
ExecuteToolChain(chain_name, initial_input) ==
    /\ mgr.pc = "idle"
    /\ TotalUsage < MaxCalls
    /\ obs' = NewObs(tool_stats)
    /\ use' = NoUse
    /\ IF chain_name \notin DOMAIN tool_chains
       THEN /\ outcome' = ChainNotFound(chain_name)
            /\ mgr' = [IdleMgr EXCEPT !.pc = "done", !.op = "execute_tool_chain",
                                      !.chain_name = chain_name]
       ELSE /\ mgr' = [IdleMgr EXCEPT !.pc = "chain_loop",
                                      !.op = "execute_tool_chain",
                                      !.chain_name = chain_name, !.idx = 1,
                                      !.initial_input = initial_input,
                                      !.current_input = initial_input]
            /\ outcome' = NoOutcome
    /\ UNCHANGED <<first_out, tools, result_cache, tool_stats, tool_chains>>
    /\ UNCHANGED <<memVars, enhVars, advVars, parseVars>>

\* execute_tool_chain, lines 35-42 and 59: the head of one loop round, or the
\* return once the list is used up
ChainStep ==
    /\ mgr.pc = "chain_loop"
    /\ LET chain == tool_chains[mgr.chain_name] IN
       IF mgr.idx > Len(chain)
       THEN /\ outcome' = Returned(mgr.current_input)
            /\ mgr' = [mgr EXCEPT !.pc = "done"]
            /\ use' = NoUse
       ELSE LET tool_name == chain[mgr.idx] IN
            IF tool_name \notin DOMAIN tools
            THEN /\ outcome' = Raised(PlainExc("ValueError",
                        "Tool '" \o tool_name \o "' not found in chain '"
                        \o mgr.chain_name \o "'"))
                 /\ mgr' = [mgr EXCEPT !.pc = "done", !.tool_name = tool_name]
                 /\ use' = NoUse
            ELSE /\ mgr' = [mgr EXCEPT !.pc = "in_use", !.tool_name = tool_name]
                 /\ use' = EnterUse(tool_name, mgr.current_input)
                 /\ outcome' = NoOutcome
    /\ UNCHANGED <<first_out, tools, result_cache, tool_stats, tool_chains, obs>>
    /\ UNCHANGED <<memVars, enhVars, advVars, parseVars>>

\* what one awaited self._execute(processed_input) may do: return any string,
\* raise, or overrun the timeout of asyncio.wait_for
ExecErrorText == "boom"
ExecOutcomes ==
    { [kind |-> "ok", value |-> v] : v \in {"x", "y"} }
    \cup { [kind |-> "exception", value |-> ExecErrorText],
           [kind |-> "timeout", value |-> None] }

\* use, lines 70-71: the cache lookup, on the raw input_text
CacheHit(cfg, cache, input_text) ==
    cfg.cache_results /\ input_text \in DOMAIN cache

\* a cache store that files the result under itself instead of the raw input
CacheStoreUnderResult(cfg, cache, input_text, result) ==
    IF cfg.cache_results THEN DictPut(cache, result, result) ELSE cache

\* a store that does not look at cache_results
CacheStoreAlways(cfg, cache, input_text, result) ==
    DictPut(cache, input_text, result)

\* a cache of size one: a store drops what was stored before
CacheStoreLatestOnly(cfg, cache, input_text, result) ==
    IF cfg.cache_results THEN DictPut(<<>>, input_text, result) ELSE cache

\* use, lines 93-94: the cache store, under the raw input_text
CacheStore(cfg, cache, input_text, result) ==
    IF cfg.cache_results THEN DictPut(cache, input_text, result) ELSE cache

\* use, line 99
TimeoutText == "Timeout after " \o ToString(ToolTimeout) \o " seconds"

\* use, line 106: what the exhausted retry loop raises
ExhaustedError(max_retries, last_error) ==
    PlainExc("Exception", "Failed after " \o ToString(max_retries)
                          \o " attempts. Last error: " \o last_error)

\* a retry loop that waits after every failed attempt, the last one included
SleepsAfterEvery(attempt, max_retries) == TRUE

\* use, lines 103-104: is the failed attempt followed by asyncio.sleep(1)
SleepsAfter(attempt, max_retries) == attempt < max_retries - 1

\* first_out once use(input_text) of tool t has returned result
Observed(seen, t, input_text, result) ==
    IF tools[t].cache_results /\ input_text \notin DOMAIN seen[t]
    THEN [seen EXCEPT ![t] = DictPut(@, input_text, result)]
    ELSE seen

\* AdvancedTool.use, lines 70-79: cache lookup, pre-processors, loop set-up
UseBegin ==
    /\ use.pc = "begin"
    /\ LET t == use.tool
           cfg == tools[t]
           pre == ApplyAll(cfg.pre_processors, use.input_text)
           seen == [obs EXCEPT !.uses = Append(@, [tool |-> t,
                                                   input |-> use.input_text]),
                               !.attempts = <<>>, !.sleeps = 0, !.hit = FALSE]
       IN IF CacheHit(cfg, result_cache[t], use.input_text)
          THEN /\ use' = [use EXCEPT !.pc = "returned",
                                     !.result = result_cache[t][use.input_text]]
               /\ obs' = [seen EXCEPT !.hit = TRUE]
               /\ first_out' = Observed(first_out, t, use.input_text,
                                        result_cache[t][use.input_text])
          ELSE IF ~pre.ok
          THEN /\ use' = [use EXCEPT !.pc = "raised", !.exc = ProcError]
               /\ obs' = seen
               /\ UNCHANGED first_out
          ELSE /\ use' = [use EXCEPT !.pc = "loop", !.processed_input = pre.value,
                                     !.attempt = 0, !.last_error = None]
               /\ obs' = seen
               /\ UNCHANGED first_out
    /\ UNCHANGED <<tools, result_cache, tool_stats, tool_chains, mgr, outcome>>
    /\ UNCHANGED <<memVars, enhVars, advVars, parseVars>>

\* AdvancedTool.use, lines 80-104: one round of the retry loop
UseAttempt(o) ==
    /\ use.pc = "loop"
    /\ LET t == use.tool
           cfg == tools[t]
           post == ApplyAll(cfg.post_processors, o.value)
           ran == [obs EXCEPT !.execs[t] = @ + 1]
           failed(what, text) ==
               /\ use' = [use EXCEPT !.attempt = @ + 1, !.last_error = text]
               /\ obs' = [ran EXCEPT
                            !.attempts = Append(@, [kind |-> what, value |-> o.value]),
                            !.sleeps = IF SleepsAfter(use.attempt, cfg.max_retries)
                                       THEN @ + 1 ELSE @]
               /\ UNCHANGED <<result_cache, first_out>>
       IN /\ use.attempt < cfg.max_retries
          /\ CASE o.kind = "ok" /\ post.ok ->
                    /\ result_cache' =
                         [result_cache EXCEPT
                            ![t] = CacheStore(cfg, @, use.input_text, post.value)]
                    /\ use' = [use EXCEPT !.pc = "returned", !.result = post.value]
                    /\ obs' = [ran EXCEPT !.attempts = Append(@, o)]
                    /\ first_out' = Observed(first_out, t, use.input_text, post.value)
               [] o.kind = "ok" /\ ~post.ok -> failed("post_error", ProcErrorText)
               [] o.kind = "timeout" -> failed("timeout", TimeoutText)
               [] OTHER -> failed("exception", o.value)
    /\ UNCHANGED <<tools, tool_stats, tool_chains, mgr, outcome>>
    /\ UNCHANGED <<memVars, enhVars, advVars, parseVars>>

\* AdvancedTool.use, line 106: the loop is used up
UseExhausted ==
    /\ use.pc = "loop"
    /\ use.attempt >= tools[use.tool].max_retries
    /\ use' = [use EXCEPT !.pc = "raised",
                 !.exc = ExhaustedError(tools[use.tool].max_retries, use.last_error)]
    /\ UNCHANGED <<first_out, tools, result_cache, tool_stats, tool_chains, mgr, outcome, obs>>
    /\ UNCHANGED <<memVars, enhVars, advVars, parseVars>>

\* statistics that also count an error for a call that returned
CountSuccessAndError(st) ==
    [st EXCEPT !.success_count = @ + 1, !.error_count = @ + 1, !.usage_count = @ + 1]

\* execute_tool, lines 74 and 80: the statistics of a use() that returned
CountSuccess(st) ==
    [st EXCEPT !.success_count = @ + 1, !.usage_count = @ + 1]
\* statistics that do not count a failed call as a use
CountErrorOnly(st) == [st EXCEPT !.error_count = @ + 1]

\* execute_tool, lines 77 and 80: the statistics of a use() that raised
CountError(st) ==
    [st EXCEPT !.error_count = @ + 1, !.usage_count = @ + 1]
\* chain statistics that leave usage_count alone
ChainCountSuccessOnly(st) == [st EXCEPT !.success_count = @ + 1]

\* execute_tool_chain, lines 43 and 48
ChainCountSuccess(st) ==
    [st EXCEPT !.success_count = @ + 1, !.usage_count = @ + 1]
\* execute_tool_chain, lines 45 and 48
ChainCountError(st) ==
    [st EXCEPT !.error_count = @ + 1, !.usage_count = @ + 1]
\* a chain that hands every tool the input it already had
KeepChainInput(current_input, result) == current_input

\* execute_tool_chain, line 57: what the next tool of the chain receives
NextChainInput(current_input, result) == result

\* execute_tool, lines 73-75 and the finally block: tool.use returned
ExecuteToolReturn ==
    /\ mgr.pc = "in_use" /\ mgr.op = "execute_tool"
    /\ use.pc = "returned"
    /\ tool_stats' = [tool_stats EXCEPT ![mgr.tool_name] = CountSuccess(@)]
    /\ outcome' = Returned(use.result)
    /\ obs' = [obs EXCEPT !.outs = Append(@, use.result)]
    /\ mgr' = [mgr EXCEPT !.pc = "done"]
    /\ UNCHANGED <<first_out, tools, result_cache, tool_chains, use>>
    /\ UNCHANGED <<memVars, enhVars, advVars, parseVars>>

\* execute_tool, lines 76-78 and the finally block: tool.use raised
ExecuteToolRaise ==
    /\ mgr.pc = "in_use" /\ mgr.op = "execute_tool"
    /\ use.pc = "raised"
    /\ tool_stats' = [tool_stats EXCEPT ![mgr.tool_name] = CountError(@)]
    /\ outcome' = Raised(use.exc)
    /\ mgr' = [mgr EXCEPT !.pc = "done"]
    /\ UNCHANGED <<first_out, tools, result_cache, tool_chains, use, obs>>
    /\ UNCHANGED <<memVars, enhVars, advVars, parseVars>>

\* execute_tool_chain, lines 42-43, 47-57: tool.use returned
ChainToolReturn ==
    /\ mgr.pc = "in_use" /\ mgr.op = "execute_tool_chain"
    /\ use.pc = "returned"
    /\ tool_stats' = [tool_stats EXCEPT ![mgr.tool_name] = ChainCountSuccess(@)]
    /\ mgr' = [mgr EXCEPT !.pc = "chain_loop", !.idx = @ + 1,
                 !.current_input = NextChainInput(mgr.current_input, use.result)]
    /\ obs' = [obs EXCEPT !.outs = Append(@, use.result)]
    /\ UNCHANGED <<first_out, tools, result_cache, tool_chains, use, outcome>>
    /\ UNCHANGED <<memVars, enhVars, advVars, parseVars>>

\* a chain that swallows the error and goes on with the next tool
ChainSkipFailed(m) == [m EXCEPT !.pc = "chain_loop", !.idx = @ + 1]

\* execute_tool_chain, line 46: raise e leaves the loop and the function
ChainAbort(m) == [m EXCEPT !.pc = "done"]

\* execute_tool_chain, lines 44-55: tool.use raised
ChainToolRaise ==
    /\ mgr.pc = "in_use" /\ mgr.op = "execute_tool_chain"
    /\ use.pc = "raised"
    /\ tool_stats' = [tool_stats EXCEPT ![mgr.tool_name] = ChainCountError(@)]
    /\ outcome' = Raised(use.exc)
    /\ mgr' = ChainAbort(mgr)
    /\ obs' = [obs EXCEPT !.first_fail = IF @ = 0 THEN mgr.idx ELSE @]
    /\ UNCHANGED <<first_out, tools, result_cache, tool_chains, use>>
    /\ UNCHANGED <<memVars, enhVars, advVars, parseVars>>

\* the caller takes the result or the exception of the finished call
Finish ==
    /\ mgr.pc = "done"
    /\ mgr' = IdleMgr
    /\ use' = NoUse
    /\ outcome' = NoOutcome
    /\ obs' = NewObs(tool_stats)
    /\ UNCHANGED <<first_out, tools, result_cache, tool_stats, tool_chains>>
    /\ UNCHANGED <<memVars, enhVars, advVars, parseVars>>

NextTools ==
    \/ \E c \in ChainNames, names \in ChainChoices : DefineToolChain(c, names)
    \/ \E t \in ToolNames : ClearCache(t)
    \/ \E t \in ToolNames, x \in Vals : ExecuteTool(t, x)
    \/ \E c \in ChainNames \cup {NoChain}, x \in Vals : ExecuteToolChain(c, x)
    \/ ChainStep
    \/ UseBegin
    \/ \E o \in ExecOutcomes : UseAttempt(o)
    \/ UseExhausted
    \/ ExecuteToolReturn
    \/ ExecuteToolRaise
    \/ ChainToolReturn
    \/ ChainToolRaise
    \/ Finish

----------------------------------------------------------------------------
(* Memory (agent.py) and AgentMemory (advanced_agent.py) *)

MemKeys == {"k1", "k2"}
\* long-term values, and what get_relevant_memory is asked
MemVals == {"x", "y"}
Queries == {"x", "xy"}
TopKs == {0, 1, 2}

\* SentenceTransformer.encode on MemVals: every embedding has norm 5
Encode(text) ==
    CASE text = "x" -> <<5, 0>>
      [] text = "y" -> <<0, 5>>
      [] OTHER -> <<4, 3>>

\* sklearn cosine_similarity of two embeddings of norm 5, in 25ths
CosineSimilarity(u, v) == u[1] * v[1] + u[2] * v[2]

\* a full list that gives up the entry it was just handed
PushShortDropNewest(list, entry, max) ==
    LET l == Append(list, entry) IN IF Len(l) > max THEN SubSeq(l, 1, Len(l) - 1) ELSE l

\* list.append(entry); if len(list) > max: list.pop(0)   (agent.py:46-53)
MemoryPushShort(list, entry, max) ==
    LET l == Append(list, entry) IN IF Len(l) > max THEN Tail(l) ELSE l
\* a long-term list that is never cut
PushLongUnbounded(list, entry, max) == Append(list, entry)

\* a long-term store that files every entry twice
PushLongTwice(list, entry, max) ==
    LET l == Append(Append(list, entry), entry)
    IN IF Len(l) > max THEN Tail(l) ELSE l

\* agent.py:56-62
MemoryPushLong(list, entry, max) ==
    LET l == Append(list, entry) IN IF Len(l) > max THEN Tail(l) ELSE l
\* advanced_agent.py:31-33
AgentMemoryPushShort(list, entry, max) ==
    LET l == Append(list, entry) IN IF Len(l) > max THEN Tail(l) ELSE l

\* an insertion-ordered dict as the list of its items
OrderedKeys(d) == { d[i].key : i \in DOMAIN d }
\* d[key] = value: a present key keeps its place, a new one goes last
OrderedPut(d, key, value) ==
    IF key \in OrderedKeys(d)
    THEN [i \in DOMAIN d |-> IF d[i].key = key
                             THEN [key |-> key, value |-> value] ELSE d[i]]
    ELSE Append(d, [key |-> key, value |-> value])
\* del d[key]
OrderedDel(d, key) == SelectSeq(d, LAMBDA it : it.key # key)

NoRelevant == [query |-> None, top_k |-> 0, raised |-> FALSE, result |-> <<>>]

InitMemory ==
    /\ mem_cfg \in [cls : {"Memory", "AgentMemory"},
                    max_short_term : 0..MaxCap, max_long_term : 0..MaxCap]
    /\ short_term = <<>>
    /\ long_term = <<>>
    /\ embeddings = <<>>
    /\ clock = 0
    /\ added = [short |-> <<>>, long |-> <<>>]
    /\ relevant = NoRelevant

\* Memory.add_short_term
MemoryAddShortTerm(thought, action, result) ==
    /\ mem_cfg.cls = "Memory"
    /\ clock < MaxAdds
    /\ clock' = clock + 1
    /\ short_term' = MemoryPushShort(short_term,
                        [thought |-> thought, action |-> action, result |-> result,
                         timestamp |-> clock'], mem_cfg.max_short_term)
    /\ added' = [added EXCEPT !.short = Append(@, clock')]
    /\ relevant' = NoRelevant
    /\ UNCHANGED <<mem_cfg, long_term, embeddings>>
    /\ UNCHANGED <<toolVars, enhVars, advVars, parseVars>>

\* Memory.add_long_term
MemoryAddLongTerm(key, value) ==
    /\ mem_cfg.cls = "Memory"
    /\ clock < MaxAdds
    /\ clock' = clock + 1
    /\ long_term' = MemoryPushLong(long_term,
                        [key |-> key, value |-> value, timestamp |-> clock'],
                        mem_cfg.max_long_term)
    /\ added' = [added EXCEPT !.long = Append(@, clock')]
    /\ relevant' = NoRelevant
    /\ UNCHANGED <<mem_cfg, short_term, embeddings>>
    /\ UNCHANGED <<toolVars, enhVars, advVars, parseVars>>

\* AgentMemory.add_short_term
AgentMemoryAddShortTerm(thought, action, result) ==
    /\ mem_cfg.cls = "AgentMemory"
    /\ clock < MaxAdds
    /\ clock' = clock + 1
    /\ short_term' = AgentMemoryPushShort(short_term,
                        [thought |-> thought, action |-> action, result |-> result,
                         timestamp |-> clock', metadata |-> <<>>],
                        mem_cfg.max_short_term)
    /\ added' = [added EXCEPT !.short = Append(@, clock')]
    /\ relevant' = NoRelevant
    /\ UNCHANGED <<mem_cfg, long_term, embeddings>>
    /\ UNCHANGED <<toolVars, enhVars, advVars, parseVars>>

\* an eviction that leaves the embedding of the evicted entry in place
EvictKeepEmbedding(mem, max) ==
    IF Len(mem.long_term) > max
    THEN [long_term |-> Tail(mem.long_term), embeddings |-> mem.embeddings]
    ELSE mem

\* AgentMemory.add_long_term, lines 48-51: the eviction
\* mem = [long_term, embeddings] after lines 42-46
AgentMemoryEvict(mem, max) ==
    IF Len(mem.long_term) > max
    THEN LET oldest_entry == Head(mem.long_term) IN
         [long_term |-> Tail(mem.long_term),
          embeddings |-> IF oldest_entry.key \in OrderedKeys(mem.embeddings)
                         THEN OrderedDel(mem.embeddings, oldest_entry.key)
                         ELSE mem.embeddings]
    ELSE mem

\* AgentMemory.add_long_term
AgentMemoryAddLongTerm(key, value) ==
    /\ mem_cfg.cls = "AgentMemory"
    /\ clock < MaxAdds
    /\ clock' = clock + 1
    /\ LET memory_entry == [key |-> key, value |-> value, timestamp |-> clock',
                            metadata |-> <<>>]
           after == AgentMemoryEvict(
                        [long_term |-> Append(long_term, memory_entry),
                         embeddings |-> OrderedPut(embeddings, key, Encode(value))],
                        mem_cfg.max_long_term)
       IN /\ long_term' = after.long_term
          /\ embeddings' = after.embeddings
    /\ added' = [added EXCEPT !.long = Append(@, clock')]
    /\ relevant' = NoRelevant
    /\ UNCHANGED <<mem_cfg, short_term>>
    /\ UNCHANGED <<toolVars, enhVars, advVars, parseVars>>

\* sorted(items, key=lambda x: x[1], reverse=True): a stable sort, so items of
\* equal similarity keep the order they had
RECURSIVE SortedDesc(_)
SortedDesc(items) ==
    IF items = <<>> THEN <<>>
    ELSE LET last == items[Len(items)]
             front == SortedDesc(SubSeq(items, 1, Len(items) - 1))
             \* last goes behind every item that is at least as similar
             n == Cardinality({ i \in DOMAIN front :
                                  front[i].similarity >= last.similarity })
         IN SubSeq(front, 1, n) \o <<last>> \o SubSeq(front, n + 1, Len(front))

\* items[:top_k], top_k >= 0
Prefix(items, top_k) ==
    SubSeq(items, 1, IF top_k < Len(items) THEN top_k ELSE Len(items))

\* next(item for item in long_term if item["key"] == key), where there is one
FirstWithKey(list, key) ==
    list[CHOOSE i \in DOMAIN list :
            /\ list[i].key = key
            /\ \A j \in 1..(i - 1) : list[j].key # key]

\* AgentMemory.get_relevant_memory, lines 54-61: the ranked keys
RankedKeys(embs, query, top_k) ==
    LET query_embedding == Encode(query)
        similarities ==
            [i \in DOMAIN embs |->
                [key |-> embs[i].key,
                 similarity |-> CosineSimilarity(query_embedding, embs[i].value)]]
    IN Prefix(SortedDesc(similarities), top_k)

\* AgentMemory.get_relevant_memory
GetRelevantMemory(query, top_k) ==
    /\ mem_cfg.cls = "AgentMemory"
    /\ LET sorted_keys == RankedKeys(embeddings, query, top_k)
           found == \A i \in DOMAIN sorted_keys :
                        \E j \in DOMAIN long_term :
                            long_term[j].key = sorted_keys[i].key
       IN relevant' =
            [query |-> query, top_k |-> top_k, raised |-> ~found,
             result |-> IF found
                        THEN [i \in DOMAIN sorted_keys |->
                                FirstWithKey(long_term, sorted_keys[i].key)]
                        ELSE <<>>]
    /\ UNCHANGED <<mem_cfg, short_term, long_term, embeddings, clock, added>>
    /\ UNCHANGED <<toolVars, enhVars, advVars, parseVars>>

NextMemory ==
    \/ MemoryAddShortTerm("thought", "action", "res")
    \/ \E k \in MemKeys, v \in MemVals : MemoryAddLongTerm(k, v)
    \/ AgentMemoryAddShortTerm("thought", "action", "res")
    \/ \E k \in MemKeys, v \in MemVals : AgentMemoryAddLongTerm(k, v)
    \/ \E q \in Queries, k \in TopKs : GetRelevantMemory(q, k)

----------------------------------------------------------------------------
(* EnhancedAgent (agent.py) *)

(* Model text is a sequence of tokens: the markers of the prompt format, the
   separators the parser looks at, and words that contain none of them. *)
FINAL_ANSWER_TOKEN == "Final Answer:"
OBSERVATION_TOKEN == "Observation:"
THOUGHT_TOKEN == "Thought:"
ACTION_TOKEN == "Action: "
ACTION_INPUT_TOKEN == "Action Input:"
NL == "\n"
SP == " "
LBRACKET == "["
RBRACKET == "]"
QUOTE == "\""

\* the string a token sequence spells
RECURSIVE Join(_)
Join(toks) == IF toks = <<>> THEN "" ELSE Head(toks) \o Join(Tail(toks))

\* text.strip(chars) on tokens: drop the tokens in chars at both ends
RECURSIVE LStrip(_, _)
LStrip(toks, chars) ==
    IF toks # <<>> /\ Head(toks) \in chars THEN LStrip(Tail(toks), chars) ELSE toks
RECURSIVE RStrip(_, _)
RStrip(toks, chars) ==
    IF toks # <<>> /\ toks[Len(toks)] \in chars
    THEN RStrip(SubSeq(toks, 1, Len(toks) - 1), chars) ELSE toks
Strip(toks, chars) == RStrip(LStrip(toks, chars), chars)
Whitespace == {SP, NL}

\* text.split(sep)[-1]: what follows the last sep (all of it when there is none)
AfterLast(toks, sep) ==
    LET at == { i \in DOMAIN toks : toks[i] = sep } IN
    IF at = {} THEN toks
    ELSE SubSeq(toks, (CHOOSE i \in at : \A j \in at : j <= i) + 1, Len(toks))

Min(S) == CHOOSE m \in S : \A n \in S : m <= n

\* re.search(r"Action: [\[]?(.*?)[\]]?[\n]*Action Input:[\s]*(.*)", generated,
\* re.DOTALL): the two groups, or matched = FALSE
ActionMatch(generated) ==
    LET inputs == { j \in DOMAIN generated : generated[j] = ACTION_INPUT_TOKEN }
        starts == { i \in DOMAIN generated :
                      /\ generated[i] = ACTION_TOKEN
                      /\ \E j \in inputs : j > i }
    IN IF starts = {} THEN [matched |-> FALSE, tool |-> <<>>, tool_input |-> <<>>]
       ELSE LET i == Min(starts)
                j == Min({ k \in inputs : k > i })
                \* [\[]? takes the bracket when it is there
                s == IF i + 1 < j /\ generated[i + 1] = LBRACKET THEN i + 2 ELSE i + 1
                \* the lazy group ends as early as [\]]?[\n]* can reach the label
                m == Min({ e \in s..j : \A k \in e..(j - 1) : generated[k] = NL })
                e == IF m - 1 >= s /\ generated[m - 1] = RBRACKET THEN m - 1 ELSE m
            IN [matched |-> TRUE,
                tool |-> SubSeq(generated, s, e - 1),
                tool_input |-> LStrip(SubSeq(generated, j + 1, Len(generated)),
                                      Whitespace)]

\* a parser that looks for an action block first and for the final-answer
\* marker only when there is none
ParseActionFirst(generated) ==
    LET match == ActionMatch(generated) IN
    IF match.matched
    THEN [raised |-> FALSE,
          tool |-> Join(Strip(match.tool, Whitespace)),
          tool_input |-> Join(Strip(Strip(match.tool_input, {SP}), {QUOTE}))]
    ELSE IF \E i \in DOMAIN generated : generated[i] = FINAL_ANSWER_TOKEN
    THEN [raised |-> FALSE, tool |-> "Final Answer",
          tool_input |-> Join(Strip(AfterLast(generated, FINAL_ANSWER_TOKEN),
                                    Whitespace))]
    ELSE [raised |-> TRUE, tool |-> None, tool_input |-> None]

\* a parser that never gives up: text with no final answer and no action
\* block is taken as the input of the first tool
ParseLenient(generated) ==
    IF \E i \in DOMAIN generated : generated[i] = FINAL_ANSWER_TOKEN
    THEN [raised |-> FALSE, tool |-> "Final Answer",
          tool_input |-> Join(Strip(AfterLast(generated, FINAL_ANSWER_TOKEN),
                                    Whitespace))]
    ELSE LET match == ActionMatch(generated) IN
         IF ~match.matched
         THEN [raised |-> FALSE, tool |-> "Search", tool_input |-> Join(generated)]
         ELSE [raised |-> FALSE,
               tool |-> Join(Strip(match.tool, Whitespace)),
               tool_input |-> Join(Strip(Strip(match.tool_input, {SP}), {QUOTE}))]

\* EnhancedAgent._parse: [raised, tool, tool_input]
Parse(generated) ==
    IF \E i \in DOMAIN generated : generated[i] = FINAL_ANSWER_TOKEN
    THEN [raised |-> FALSE, tool |-> "Final Answer",
          tool_input |-> Join(Strip(AfterLast(generated, FINAL_ANSWER_TOKEN),
                                    Whitespace))]
    ELSE LET match == ActionMatch(generated) IN
         IF ~match.matched
         THEN [raised |-> TRUE, tool |-> None, tool_input |-> None]
         ELSE [raised |-> FALSE,
               tool |-> Join(Strip(match.tool, Whitespace)),
               tool_input |-> Join(Strip(Strip(match.tool_input, {SP}), {QUOTE}))]

\* what run() hands to its caller: a str, None (the function fell off its end),
\* or an exception
NoAgentOut == [kind |-> "none", type |-> None, value |-> None, exc |-> NoExc]
AgentReturn(type, value) ==
    [kind |-> "return", type |-> type, value |-> value, exc |-> NoExc]
AgentRaise(e) == [kind |-> "raise", type |-> None, value |-> None, exc |-> e]

Questions == {"q1", "q2"}
\* names in EnhancedAgent.tools
EnhTools == {"Search"}

ToolCallText(tool, tool_input) ==
    <<"plan", NL, ACTION_TOKEN, tool, NL, ACTION_INPUT_TOKEN, SP, tool_input>>
FinalText(answer) == <<"sure", NL, FINAL_ANSWER_TOKEN, SP, answer>>

\* texts the language model answers with during a run
LLMTexts ==
    { ToolCallText("Search", "x"),
      ToolCallText("Ghost", "x"),
      FinalText("Paris"),
      <<"no", SP, "idea">>,
      ToolCallText("Search", "x") \o <<NL>> \o FinalText("Paris"),
      ToolCallText("Search", "x") \o <<NL>> \o ToolCallText("Ghost", "y") }

\* what awaiting tool.use(tool_input) may do in EnhancedAgent.run
UseResults == {"res"}
UseErrors == {"boom"}

LLMError == PlainExc("Exception", "Error generating response: quota")

\* EnhancedAgent fields (agent.py:74-83) and the locals of run
NewEnh(max_loops) ==
    [pc |-> "idle", max_loops |-> max_loops, tools |-> EnhTools,
     current_goal |-> None, sub_goals |-> <<>>,
     question |-> None, num_loops |-> 0, previous_responses |-> <<>>,
     generated |-> <<>>, runs |-> 0, n_generate |-> 0, n_use |-> 0]

InitEnh ==
    /\ enh \in { NewEnh(n) : n \in 1..MaxLoops }
    /\ enh_out = NoAgentOut

\* EnhancedAgent._decompose_goal
DecomposeGoal(goal) == <<goal>>

\* EnhancedAgent.set_goal
SetGoal(a, goal) ==
    [a EXCEPT !.current_goal = goal, !.sub_goals = DecomposeGoal(goal)]

\* run, lines 106-107: if not self.current_goal: self.set_goal(question)
EnsureGoal(a, question) ==
    IF a.current_goal = None THEN SetGoal(a, question) ELSE a

\* EnhancedAgent.run, lines 106-119: up to the loop
EnhRun(question) ==
    /\ enh.pc = "idle"
    /\ enh.runs < MaxRuns
    /\ enh' = [EnsureGoal(enh, question) EXCEPT
                 !.pc = "loop", !.question = question, !.num_loops = 0,
                 !.previous_responses = <<>>, !.generated = <<>>,
                 !.runs = @ + 1, !.n_generate = 0, !.n_use = 0]
    /\ enh_out' = NoAgentOut
    /\ UNCHANGED memVars
    /\ UNCHANGED <<toolVars, advVars, parseVars>>

\* a round that asks the language model a second time
EnhRoundAskingTwice(generated) ==
    [enh EXCEPT !.num_loops = @ + 1, !.n_generate = @ + 2,
                !.generated = generated]

\* the part of every loop round before the model's answer is looked at;
\* generated is the text llm.generate returned (<<>> when it raised)
EnhRound(generated) ==
    [enh EXCEPT !.num_loops = @ + 1, !.n_generate = @ + 1,
                !.generated = generated]

\* run, line 123, when llm.generate raises
EnhGenerateFails ==
    /\ enh.pc = "loop"
    /\ enh.num_loops < enh.max_loops
    /\ enh' = [EnhRound(<<>>) EXCEPT !.pc = "done"]
    /\ enh_out' = AgentRaise(LLMError)
    /\ UNCHANGED memVars
    /\ UNCHANGED <<toolVars, advVars, parseVars>>

\* run, line 123, when _parse raises
EnhParseFails(generated) ==
    /\ enh.pc = "loop"
    /\ enh.num_loops < enh.max_loops
    /\ Parse(generated).raised
    /\ enh' = [EnhRound(generated) EXCEPT !.pc = "done"]
    /\ enh_out' = AgentRaise(PlainExc("ValueError",
            "Output of LLM is not parsable for next tool use: " \o Join(generated)))
    /\ UNCHANGED memVars
    /\ UNCHANGED <<toolVars, advVars, parseVars>>

\* run, lines 125-127
EnhFinalAnswer(generated) ==
    /\ enh.pc = "loop"
    /\ enh.num_loops < enh.max_loops
    /\ LET p == Parse(generated) IN
       /\ ~p.raised
       /\ p.tool = "Final Answer"
       /\ clock' = clock + 1
       /\ long_term' = MemoryPushLong(long_term,
                          [key |-> enh.question, value |-> p.tool_input,
                           timestamp |-> clock'], mem_cfg.max_long_term)
       /\ added' = [added EXCEPT !.long = Append(@, clock')]
       /\ enh_out' = AgentReturn("str", p.tool_input)
    /\ enh' = [EnhRound(generated) EXCEPT !.pc = "done"]
    /\ UNCHANGED <<mem_cfg, short_term, embeddings, relevant>>
    /\ UNCHANGED <<toolVars, advVars, parseVars>>

\* run, lines 129-130
EnhUnknownTool(generated) ==
    /\ enh.pc = "loop"
    /\ enh.num_loops < enh.max_loops
    /\ LET p == Parse(generated) IN
       /\ ~p.raised
       /\ p.tool # "Final Answer"
       /\ p.tool \notin enh.tools
       /\ enh_out' = AgentRaise(PlainExc("ValueError", "Unknown tool: " \o p.tool))
    /\ enh' = [EnhRound(generated) EXCEPT !.pc = "done"]
    /\ UNCHANGED memVars
    /\ UNCHANGED <<toolVars, advVars, parseVars>>

\* run, lines 143-145: the observation goes behind the round's text
WithObservation(generated, tool_result) ==
    generated \o <<NL, OBSERVATION_TOKEN, SP, tool_result, NL, THOUGHT_TOKEN>>

\* run, lines 132-138 and 143-145: the tool returned
EnhToolReturns(generated, tool_result) ==
    /\ enh.pc = "loop"
    /\ enh.num_loops < enh.max_loops
    /\ LET p == Parse(generated) IN
       /\ ~p.raised
       /\ p.tool # "Final Answer"
       /\ p.tool \in enh.tools
       /\ clock' = clock + 1
       /\ short_term' = MemoryPushShort(short_term,
              [thought |-> Join(Strip(AfterLast(generated, THOUGHT_TOKEN), Whitespace)),
               action |-> p.tool \o ": " \o p.tool_input,
               result |-> tool_result,
               timestamp |-> clock'], mem_cfg.max_short_term)
       /\ added' = [added EXCEPT !.short = Append(@, clock')]
    /\ enh' = [EnhRound(generated) EXCEPT
                 !.n_use = @ + 1,
                 !.previous_responses =
                     Append(@, WithObservation(generated, tool_result))]
    /\ UNCHANGED <<mem_cfg, long_term, embeddings, relevant, enh_out>>
    /\ UNCHANGED <<toolVars, advVars, parseVars>>

\* run, lines 132-133 and 139-145: the tool raised
EnhToolRaises(generated, message) ==
    /\ enh.pc = "loop"
    /\ enh.num_loops < enh.max_loops
    /\ LET p == Parse(generated)
           tool_result == "Error executing tool: " \o message
       IN
       /\ ~p.raised
       /\ p.tool # "Final Answer"
       /\ p.tool \in enh.tools
       /\ enh' = [EnhRound(generated) EXCEPT
                    !.n_use = @ + 1,
                    !.previous_responses =
                        Append(@, WithObservation(
                            generated \o <<NL,
                              "Thought: I encountered an error. Let me try a different approach.">>,
                            tool_result))]
    /\ UNCHANGED <<memVars, enh_out>>
    /\ UNCHANGED <<toolVars, advVars, parseVars>>

\* run, line 120 once num_loops has reached max_loops: the function ends
\* without a return statement
EnhLoopExit ==
    /\ enh.pc = "loop"
    /\ enh.num_loops >= enh.max_loops
    /\ enh' = [enh EXCEPT !.pc = "done"]
    /\ enh_out' = AgentReturn("NoneType", None)
    /\ UNCHANGED memVars
    /\ UNCHANGED <<toolVars, advVars, parseVars>>

\* the caller takes what run handed back
EnhFinish ==
    /\ enh.pc = "done"
    /\ enh' = [enh EXCEPT !.pc = "idle", !.question = None, !.num_loops = 0,
                          !.previous_responses = <<>>, !.generated = <<>>,
                          !.n_generate = 0, !.n_use = 0]
    /\ enh_out' = NoAgentOut
    /\ UNCHANGED memVars
    /\ UNCHANGED <<toolVars, advVars, parseVars>>

NextEnh ==
    \/ \E q \in Questions : EnhRun(q)
    \/ EnhGenerateFails
    \/ \E g \in LLMTexts : EnhParseFails(g)
    \/ \E g \in LLMTexts : EnhFinalAnswer(g)
    \/ \E g \in LLMTexts : EnhUnknownTool(g)
    \/ \E g \in LLMTexts, r \in UseResults : EnhToolReturns(g, r)
    \/ \E g \in LLMTexts, m \in UseErrors : EnhToolRaises(g, m)
    \/ EnhLoopExit
    \/ EnhFinish

----------------------------------------------------------------------------
(* EnhancedAgent.decide_next_action on texts of every shape *)

\* pieces of model text: a thought line, action blocks as the prompt asks for
\* them, a bracketed and quoted block, a final answer, a blank line, and an
\* action label or an input label on its own
Segments ==
    { <<THOUGHT_TOKEN, SP, "plan", NL>>,
      <<ACTION_TOKEN, "Search", NL, ACTION_INPUT_TOKEN, SP, "x", NL>>,
      <<ACTION_TOKEN, "Ghost", NL, ACTION_INPUT_TOKEN, SP, "y">>,
      <<ACTION_TOKEN, LBRACKET, "Search", RBRACKET, NL, NL, ACTION_INPUT_TOKEN,
        SP, QUOTE, "x", QUOTE>>,
      <<FINAL_ANSWER_TOKEN, SP, "Paris", NL>>,
      <<NL>>,
      <<ACTION_TOKEN, "Lookup", SP>>,
      <<ACTION_INPUT_TOKEN, SP, "z">> }

RECURSIVE Concat(_)
Concat(segs) == IF segs = <<>> THEN <<>> ELSE Head(segs) \o Concat(Tail(segs))

\* the texts of at most MaxSegments segments
ParseTexts ==
    UNION { { Concat(segs) : segs \in [1..n -> Segments] } : n \in 1..MaxSegments }

NoParse == [raised |-> FALSE, tool |-> None, tool_input |-> None]

InitParse ==
    /\ llm_text \in Segments
    /\ parsed = NoParse

\* decide_next_action, line 148: the model answers, here with the text it gave
\* before and one more segment
Generate(seg) ==
    /\ parsed # NoParse
    /\ llm_text \o seg \in ParseTexts
    /\ llm_text' = llm_text \o seg
    /\ parsed' = NoParse
    /\ UNCHANGED <<toolVars, memVars, enhVars, advVars>>

\* decide_next_action, line 149: tool, tool_input = self._parse(generated)
ParseGenerated ==
    /\ parsed = NoParse
    /\ parsed' = Parse(llm_text)
    /\ UNCHANGED llm_text
    /\ UNCHANGED <<toolVars, memVars, enhVars, advVars>>

NextParse ==
    \/ \E seg \in Segments : Generate(seg)
    \/ ParseGenerated

----------------------------------------------------------------------------
(* AdvancedAgent (advanced_agent.py) *)

(* A float of the progress computation is coded by an integer that keeps the
   order of the doubles: 100 * (k/10) + the distance, in units of the last
   place, of the double from the double nearest to k/10. The doubles
   0.1 + ... + 0.1 reach are 0.30000000000000004 (31), 0.7999999999999999 (79),
   0.8999999999999999 (89), 0.9999999999999999 (99) and 1.0999999999999999 (109). *)
One == 100

\* IEEE-754 double p + 0.1 on the values progress takes
AddTenth(p) ==
    CASE p = 0 -> 10
      [] p = 10 -> 20
      [] p = 20 -> 31
      [] p = 31 -> 40
      [] p = 40 -> 50
      [] p = 50 -> 60
      [] p = 60 -> 70
      [] p = 70 -> 79
      [] p = 79 -> 89
      [] p = 89 -> 99
      [] p = 99 -> 109
      [] p = 100 -> 110

\* AdvancedAgent._calculate_progress: min(1.0, progress + 0.1)
CalculateProgress(goal, result) ==
    LET q == AddTenth(goal.progress) IN IF One < q THEN One ELSE q

\* AgentGoal.update_progress
UpdateProgress(goal, progress) == [goal EXCEPT !.progress = progress]

\* a completion test that takes 0.9999999999999999 for 1.0
IsGoalCompletedNearly(goal, result) == goal.progress >= One - 1

\* AdvancedAgent._is_goal_completed
IsGoalCompleted(goal, result) == goal.progress >= One

\* floats a caller hands to AgentGoal.update_progress: -0.1, 0.5, 1.5
Progresses == {0 - 10, 50, 150}

\* AgentGoal(main_goal=goal) followed by _decompose_goal (lines 96-97, 193-196)
NewGoal(goal) ==
    [main_goal |-> goal, sub_goals |-> <<"First sub-goal", "Second sub-goal">>,
     status |-> "in_progress", progress |-> 0]
NoGoal == [main_goal |-> None, sub_goals |-> <<>>, status |-> None, progress |-> 0]

\* AdvancedAgent._parse_action
ParseAction(response) == [type |-> "tool", tool |-> "example", input |-> "example"]
\* AdvancedAgent._generate_fallback_action
FallbackAction == [type |-> "tool", tool |-> "fallback", input |-> "fallback"]
\* no action yet
NoAction == [type |-> None, tool |-> None, input |-> None]
\* actions of a kind _execute_action has no branch for
OtherActions == { [type |-> "final_answer", tool |-> None, input |-> "Paris"] }
\* AdvancedAgent._generate_final_answer
FinalAnswerText == "Final answer based on all interactions"

\* AdvancedAgent._build_context: a fixed text, whatever the earlier rounds gave
BuildContext(previous_responses) == <<"Context built from memory and responses">>

\* the prompt of a round. _generate_action calls self._build_action_prompt,
\* which the class does not define; this follows the design text: the language
\* model is invoked with the context.
BuildActionPrompt(context) == context

\* the tool lists an AdvancedAgent is constructed with
AdvRegistries == { {"example", "fallback"}, {"example"}, {"other"} }
AdvThresholds == { DefaultThreshold, 95 }
AdvMaxLoops == (1..MaxLoops) \cup {AdvDefaultMaxLoops}

\* AdvancedAgent fields (advanced_agent.py:81-93) and the locals of run
NewAdv(max_loops, threshold, registry) ==
    [pc |-> "idle", max_loops |-> max_loops, confidence_threshold |-> threshold,
     tools |-> registry,
     tool_stats |-> [t \in registry |-> [success |-> 0, failure |-> 0]],
     current_goal |-> NoGoal, num_loops |-> 0, previous_responses |-> <<>>,
     context |-> <<>>, prompt |-> <<>>, action |-> NoAction, runs |-> 0, n_generate |-> 0, n_use |-> 0]

InitAdv ==
    /\ adv \in { NewAdv(n, th, reg) :
                   n \in AdvMaxLoops, th \in AdvThresholds, reg \in AdvRegistries }
    /\ adv_out = NoAgentOut

\* AdvancedAgent.run, lines 96-100
AdvRun(goal) ==
    /\ adv.pc = "idle"
    /\ adv.runs < MaxRuns
    \* an agent with the default max_loops is run once
    /\ adv.runs = 0 \/ adv.max_loops <= MaxLoops
    /\ adv' = [adv EXCEPT !.pc = "loop", !.current_goal = NewGoal(goal),
                          !.num_loops = 0, !.previous_responses = <<>>,
                          !.context = <<>>, !.prompt = <<>>,
                          !.action = NoAction,
                          !.runs = @ + 1, !.n_generate = 0, !.n_use = 0]
    /\ adv_out' = NoAgentOut
    /\ UNCHANGED memVars
    /\ UNCHANGED <<toolVars, enhVars, parseVars>>

\* run, line 102
AdvLoopGuard ==
    /\ adv.pc = "loop"
    /\ adv.num_loops < adv.max_loops
    /\ adv.current_goal.status # "completed"

\* run, lines 103-107 and 130-131: the round is counted, the context and the
\* prompt are built and the language model is asked
AdvRound ==
    LET context == BuildContext(adv.previous_responses) IN
    [adv EXCEPT !.num_loops = @ + 1, !.n_generate = @ + 1,
                !.context = context, !.prompt = BuildActionPrompt(context),
                !.action = NoAction]

\* run, lines 107-111: the action of the round
ChosenAction(a, response) ==
    IF Confidence < a.confidence_threshold THEN FallbackAction
    ELSE ParseAction(response)

\* run, line 107, when llm.generate raises
AdvGenerateFails ==
    /\ AdvLoopGuard
    /\ adv' = [AdvRound EXCEPT !.pc = "done"]
    /\ adv_out' = AgentRaise(LLMError)
    /\ UNCHANGED memVars
    /\ UNCHANGED <<toolVars, enhVars, parseVars>>

\* run, lines 117-125, the rest of a round whose action gave result
AdvAfterAction(a, action, result) ==
    LET goal == UpdateProgress(a.current_goal,
                               CalculateProgress(a.current_goal, result))
        completed == IsGoalCompleted(goal, result)
    IN [a EXCEPT
          !.current_goal = IF completed THEN [goal EXCEPT !.status = "completed"]
                           ELSE goal,
          !.previous_responses = Append(@, <<action, result>>),
          !.pc = IF completed THEN "return" ELSE "loop"]

\* AdvancedAgent._update_memory
AdvUpdateMemory(action, result) ==
    /\ clock' = clock + 1
    /\ short_term' = AgentMemoryPushShort(short_term,
          [thought |-> "", action |-> action.type \o ": " \o action.tool,
           result |-> result, timestamp |-> clock',
           metadata |-> [confidence |-> 0]], mem_cfg.max_short_term)
    /\ added' = [added EXCEPT !.short = Append(@, clock')]
    /\ UNCHANGED <<mem_cfg, long_term, embeddings, relevant>>

\* one round whose tool is registered and returns (lines 103-125, 144-155)
AdvToolReturns(response, tool_result) ==
    /\ AdvLoopGuard
    /\ LET action == ChosenAction(adv, response)
           began == [AdvRound EXCEPT
                                !.action = action,
                                !.n_use = @ + 1,
                                !.tool_stats[action.tool].success = @ + 1]
       IN /\ action.tool \in adv.tools
          /\ adv' = AdvAfterAction(began, action, tool_result)
          /\ AdvUpdateMemory(action, tool_result)
    /\ UNCHANGED adv_out
    /\ UNCHANGED <<toolVars, enhVars, parseVars>>

\* one round whose tool is registered and raises (lines 103-125, 156-158)
AdvToolRaises(response, message) ==
    /\ AdvLoopGuard
    /\ LET action == ChosenAction(adv, response)
           result == "Error executing tool " \o action.tool \o ": " \o message
           began == [AdvRound EXCEPT
                                !.action = action,
                                !.n_use = @ + 1,
                                !.tool_stats[action.tool].failure = @ + 1]
       IN /\ action.tool \in adv.tools
          /\ adv' = AdvAfterAction(began, action, result)
          /\ AdvUpdateMemory(action, result)
    /\ UNCHANGED adv_out
    /\ UNCHANGED <<toolVars, enhVars, parseVars>>

\* one round whose tool no registered tool carries: next() in
\* _execute_tool_with_timeout finds nothing, the handler of line 156 catches that
\* and line 157 indexes tool_stats with the unknown name
AdvToolMissing(response) ==
    /\ AdvLoopGuard
    /\ LET action == ChosenAction(adv, response) IN
       /\ action.tool \notin adv.tools
       /\ adv_out' = AgentRaise(PlainExc("KeyError", action.tool))
       /\ adv' = [AdvRound EXCEPT !.pc = "done", !.action = action]
    /\ UNCHANGED memVars
    /\ UNCHANGED <<toolVars, enhVars, parseVars>>

\* AdvancedAgent._execute_action, lines 141-142, called with an action that is
\* neither a tool call nor a sub-goal
AdvExecuteAction(action) ==
    /\ adv.pc = "idle"
    /\ adv.runs < MaxRuns
    /\ action.type \notin {"tool", "sub_goal"}
    /\ adv' = [adv EXCEPT !.pc = "done", !.action = action, !.runs = @ + 1]
    /\ adv_out' = AgentRaise(PlainExc("ValueError",
                                      "Unknown action type: " \o action.type))
    /\ UNCHANGED memVars
    /\ UNCHANGED <<toolVars, enhVars, parseVars>>

\* AgentGoal.update_progress called on the agent's goal between two runs
GoalUpdateProgress(progress) ==
    /\ adv.pc = "idle"
    /\ adv.current_goal # NoGoal
    /\ adv' = [adv EXCEPT !.current_goal = UpdateProgress(@, progress)]
    /\ UNCHANGED adv_out
    /\ UNCHANGED memVars
    /\ UNCHANGED <<toolVars, enhVars, parseVars>>

\* run, lines 102 and 127: the loop is left and the answer returned
AdvReturn ==
    /\ \/ adv.pc = "return"
       \/ adv.pc = "loop" /\ ~AdvLoopGuard
    /\ adv' = [adv EXCEPT !.pc = "done"]
    /\ adv_out' = AgentReturn("str", FinalAnswerText)
    /\ UNCHANGED memVars
    /\ UNCHANGED <<toolVars, enhVars, parseVars>>

\* the caller takes what run handed back
AdvFinish ==
    /\ adv.pc = "done"
    /\ adv' = [adv EXCEPT !.pc = "idle", !.num_loops = 0,
                          !.previous_responses = <<>>,
                          !.context = <<>>, !.prompt = <<>>,
                          !.action = NoAction,
                          !.n_generate = 0, !.n_use = 0]
    /\ adv_out' = NoAgentOut
    /\ UNCHANGED memVars
    /\ UNCHANGED <<toolVars, enhVars, parseVars>>

\* what the language model answers with, and what awaiting tool.use may do
AdvResponses == {"response"}

NextAdv ==
    \/ \E q \in Questions : AdvRun(q)
    \/ AdvGenerateFails
    \/ \E r \in AdvResponses, v \in UseResults : AdvToolReturns(r, v)
    \/ \E r \in AdvResponses, m \in UseErrors : AdvToolRaises(r, m)
    \/ \E r \in AdvResponses : AdvToolMissing(r)
    \/ \E a \in OtherActions : AdvExecuteAction(a)
    \/ \E p \in Progresses : GoalUpdateProgress(p)
    \/ AdvReturn
    \/ AdvFinish

----------------------------------------------------------------------------
(* Specifications. Each drives one component; the others rest. *)

RestTools ==
    /\ tools = [t \in {"Fetch"} |-> ToolConfig(1, TRUE, <<>>, <<>>)]
    /\ result_cache = [t \in DOMAIN tools |-> <<>>]
    /\ tool_stats = [t \in DOMAIN tools |-> NewToolStats]
    /\ tool_chains = <<>>
    /\ mgr = IdleMgr
    /\ use = NoUse
    /\ outcome = NoOutcome
    /\ obs = NewObs([t \in DOMAIN tools |-> NewToolStats])
    /\ first_out = [t \in DOMAIN tools |-> <<>>]

\* an empty store of the given class with capacities from the given sets
MemoryOf(cls, short_caps, long_caps) ==
    /\ mem_cfg \in [cls : {cls}, max_short_term : short_caps,
                    max_long_term : long_caps]
    /\ short_term = <<>>
    /\ long_term = <<>>
    /\ embeddings = <<>>
    /\ clock = 0
    /\ added = [short |-> <<>>, long |-> <<>>]
    /\ relevant = NoRelevant

RestEnh == enh = NewEnh(1) /\ enh_out = NoAgentOut
RestParse ==
    /\ llm_text = <<>>
    /\ parsed = NoParse
RestAdv == adv = NewAdv(1, DefaultThreshold, {"example"}) /\ adv_out = NoAgentOut

\* EnhancedToolManager over AdvancedTools
Init == InitTools /\ MemoryOf("Memory", {MaxCap}, {MaxCap}) /\ RestEnh /\ RestAdv /\ RestParse
Next == NextTools
Spec == Init /\ [][Next]_vars

\* Memory and AgentMemory on their own
MemInit == RestTools /\ InitMemory /\ RestEnh /\ RestAdv /\ RestParse
MemNext == NextMemory
MemSpec == MemInit /\ [][MemNext]_vars

\* EnhancedAgent.run over a Memory
EnhInit == RestTools /\ MemoryOf("Memory", 1..MaxCap, {MaxCap}) /\ InitEnh /\ RestAdv /\ RestParse
EnhNext == NextEnh
EnhSpec == EnhInit /\ [][EnhNext]_vars

\* AdvancedAgent.run over an AgentMemory
AdvInit == RestTools /\ MemoryOf("AgentMemory", 1..MaxCap, {MaxCap}) /\ RestEnh /\ InitAdv /\ RestParse
AdvNext == NextAdv
AdvSpec == AdvInit /\ [][AdvNext]_vars

\* EnhancedAgent._parse on model texts
ParseInit ==
    RestTools /\ MemoryOf("Memory", {MaxCap}, {MaxCap}) /\ RestEnh /\ RestAdv /\ InitParse
ParseNext == NextParse
ParseSpec == ParseInit /\ [][ParseNext]_vars

----------------------------------------------------------------------------
(* Properties *)

\* C1: run performs at most max_loops reason-act rounds, and a run that hands a
\* value back to its caller hands back a string, also when the rounds are used
\* up before any final answer.
C1_RunReturnsString ==
    /\ enh.num_loops <= enh.max_loops
    /\ (enh.pc = "done" /\ enh_out.kind = "return") => enh_out.type = "str"

\* C2: when a tool with max_retries = n >= 1 fails on the attempts 1..n-1 of a
\* call and succeeds on attempt n, execute_tool returns the (post-processed)
\* result of that attempt, the tool's success_count has grown by exactly one
\* and its error_count has not changed.
C2_SuccessOnLastAttempt ==
    (/\ mgr.pc = "done" /\ mgr.op = "execute_tool"
     /\ mgr.tool_name \in DOMAIN tools
     /\ ~obs.hit
     /\ Len(obs.attempts) >= 1
     /\ Len(obs.attempts) = tools[mgr.tool_name].max_retries
     /\ \A i \in 1..(Len(obs.attempts) - 1) : obs.attempts[i].kind # "ok"
     /\ obs.attempts[Len(obs.attempts)].kind = "ok")
    => LET t == mgr.tool_name
           last == obs.attempts[Len(obs.attempts)]
       IN /\ outcome = Returned(ApplyAll(tools[t].post_processors, last.value).value)
          /\ tool_stats[t].success_count = obs.stats0[t].success_count + 1
          /\ tool_stats[t].error_count = obs.stats0[t].error_count
          /\ obs.execs[t] = tools[t].max_retries

\* a call with max_retries = 2 whose first attempt failed and whose second
\* attempt succeeded has returned
C2_Witness ==
    /\ mgr.pc = "done" /\ mgr.op = "execute_tool"
    /\ mgr.tool_name \in DOMAIN tools
    /\ tools[mgr.tool_name].max_retries = 2
    /\ Len(obs.attempts) = 2
    /\ obs.attempts[1].kind \in {"exception", "timeout"}
    /\ obs.attempts[2].kind = "ok"
    /\ outcome.kind = "return"

\* C3: when every one of the max_retries attempts of a call fails, the call
\* raises a ToolError whose kind is timeout or execution according to the
\* last failure and which carries the last error message, and the tool's
\* error_count has grown by exactly one.
C3_ExhaustedRaisesToolError ==
    (/\ mgr.pc = "done" /\ mgr.op = "execute_tool"
     /\ mgr.tool_name \in DOMAIN tools
     /\ Len(obs.attempts) >= 1
     /\ Len(obs.attempts) = tools[mgr.tool_name].max_retries
     /\ \A i \in 1..Len(obs.attempts) : obs.attempts[i].kind \in {"exception", "timeout"})
    => LET t == mgr.tool_name
           last == obs.attempts[Len(obs.attempts)]
           text == IF last.kind = "timeout" THEN TimeoutText ELSE last.value
       IN /\ outcome.kind = "raise"
          /\ outcome.exc.type = "ToolError"
          /\ outcome.exc.error_type =
                IF last.kind = "timeout" THEN "timeout" ELSE "execution"
          /\ outcome.exc.message \in
                {text, ExhaustedError(tools[t].max_retries, text).message}
          /\ tool_stats[t].error_count = obs.stats0[t].error_count + 1
          /\ tool_stats[t].success_count = obs.stats0[t].success_count

\* C4: for a tool with caching enabled, once use(x) has returned, every later
\* use(x) up to the next clear_cache returns what that first use returned and
\* never enters the retry loop, so the underlying tool is not invoked again.
C4_CacheHitReturnsFirstOutput ==
    (use.pc # "none" /\ tools[use.tool].cache_results)
    => LET t == use.tool
           x == use.input_text
       IN /\ use.pc = "loop" => x \notin DOMAIN first_out[t]
          /\ use.pc = "returned" =>
                /\ x \in DOMAIN first_out[t]
                /\ use.result = first_out[t][x]
          /\ obs.hit => obs.attempts = <<>>

\* a call whose input had been used before was answered without any invocation
\* of the tool, with the earlier output
C4_Witness ==
    /\ mgr.pc = "done" /\ mgr.op = "execute_tool"
    /\ obs.hit
    /\ obs.execs[mgr.tool_name] = 0
    /\ outcome.kind = "return"
    /\ outcome.value = first_out[mgr.tool_name][mgr.initial_input]
    /\ outcome.value # mgr.initial_input

\* C5: in a chain [t1..tn], once ti is the first tool whose use raises, the call
\* is over: the error is what the caller receives, exactly the tools t1..ti
\* have been used, and no tool after ti is invoked during the call.
C5_ChainAbortsAtFirstFailure ==
    (mgr.op = "execute_tool_chain" /\ obs.first_fail > 0)
    => LET i == obs.first_fail
           chain == tool_chains[mgr.chain_name]
       IN /\ mgr.pc = "done"
          /\ outcome = Raised(use.exc)
          /\ Len(obs.uses) = i
          /\ \A k \in 1..i : obs.uses[k].tool = chain[k]
          /\ \A t \in ToolNames :
                t \notin {chain[k] : k \in 1..i} => obs.execs[t] = 0

\* the first tool of a two-tool chain failed and the registered second tool was
\* never invoked
C5_Witness ==
    /\ mgr.pc = "done" /\ mgr.op = "execute_tool_chain"
    /\ obs.first_fail = 1
    /\ LET chain == tool_chains[mgr.chain_name]
       IN /\ Len(chain) = 2
          /\ chain[2] # chain[1]
          /\ chain[2] \in DOMAIN tools
          /\ obs.execs[chain[1]] >= 1
          /\ obs.execs[chain[2]] = 0
    /\ outcome.kind = "raise"

\* C6: a chain [t1..tn] uses its tools one at a time in list order, t1 receives
\* the initial input, every later tool receives the output of the tool before
\* it, and a chain that returns returns the output of tn.
C6_ChainPipesOutputs ==
    (mgr.op = "execute_tool_chain" /\ mgr.chain_name \in DOMAIN tool_chains)
    => LET chain == tool_chains[mgr.chain_name]
       IN /\ Len(obs.uses) <= Len(chain)
          /\ Len(obs.outs) <= Len(obs.uses)
          /\ Len(obs.uses) <= Len(obs.outs) + 1
          /\ \A k \in 1..Len(obs.uses) :
                /\ obs.uses[k].tool = chain[k]
                /\ obs.uses[k].input =
                      IF k = 1 THEN mgr.initial_input ELSE obs.outs[k - 1]
          /\ (mgr.pc = "done" /\ outcome.kind = "return") =>
                /\ Len(obs.outs) = Len(chain)
                /\ outcome.value = obs.outs[Len(chain)]

\* a two-tool chain has returned, each tool having changed what it was given
C6_Witness ==
    /\ mgr.pc = "done" /\ mgr.op = "execute_tool_chain"
    /\ outcome.kind = "return"
    /\ Len(obs.outs) = 2
    /\ obs.outs[1] # mgr.initial_input
    /\ obs.outs[2] # obs.outs[1]
    /\ obs.uses[2].input = obs.outs[1]

\* C7: after any sequence of add_short_term calls the short-term list holds at
\* most max_short_term entries, and they are the most recently added ones in the
\* order they were added (Memory and AgentMemory alike).
C7_ShortTermFifoBound ==
    LET n == Len(added.short)
        cap == mem_cfg.max_short_term
        keep == IF n < cap THEN n ELSE cap
    IN /\ Len(short_term) <= cap
       /\ [i \in 1..Len(short_term) |-> short_term[i].timestamp]
             = SubSeq(added.short, n - keep + 1, n)

\* a store of capacity 2 was handed 4 entries and holds the last two
C7_Witness ==
    /\ mem_cfg.max_short_term = 2
    /\ Len(added.short) = 4
    /\ Len(short_term) = 2
    /\ short_term[1].timestamp = added.short[3]
    /\ short_term[2].timestamp = added.short[4]

\* C8: every key of AgentMemory.embeddings is the key of an entry that is in
\* long_term: evicting an entry leaves no embedding behind.
C8_NoOrphanEmbedding ==
    \A k \in OrderedKeys(embeddings) :
        \E j \in DOMAIN long_term : long_term[j].key = k

\* a full store of capacity 1 was handed a second entry under another key: the
\* first entry is gone and so is its embedding
C8_Witness ==
    /\ mem_cfg.cls = "AgentMemory"
    /\ mem_cfg.max_long_term = 1
    /\ Len(added.long) = 2
    /\ Len(long_term) = 1
    /\ long_term[1].timestamp = added.long[2]
    /\ OrderedKeys(embeddings) = {long_term[1].key}

\* C9: every key of AgentMemory.embeddings is the key of exactly one entry of
\* long_term.
C9_EmbeddingKeyHasOneEntry ==
    \A k \in OrderedKeys(embeddings) :
        Cardinality({ j \in DOMAIN long_term : long_term[j].key = k }) = 1

\* C10: get_relevant_memory(query, k) returns at most k entries in the order of
\* non-increasing similarity of their embedded value to the query, and of two
\* entries of equal similarity the one added later comes first.
C10_RankedByRecencyOnTies ==
    (relevant.query # None /\ ~relevant.raised)
    => LET result == relevant.result
           Sim(entry) == CosineSimilarity(Encode(relevant.query), Encode(entry.value))
       IN /\ Len(result) <= relevant.top_k
          /\ \A i, j \in DOMAIN result :
                i < j =>
                  /\ Sim(result[i]) >= Sim(result[j])
                  /\ Sim(result[i]) = Sim(result[j])
                        => result[i].timestamp > result[j].timestamp

\* C11: whenever the final-answer marker occurs in the model text, _parse gives
\* a Final Answer whose payload is the text behind the (last) marker without the
\* whitespace around it, whatever Action / Action Input blocks the text has
\* before or behind the marker.
C11_FinalAnswerHasPriority ==
    (parsed # NoParse /\ \E i \in DOMAIN llm_text : llm_text[i] = FINAL_ANSWER_TOKEN)
    => LET marker == CHOOSE i \in DOMAIN llm_text :
                        /\ llm_text[i] = FINAL_ANSWER_TOKEN
                        /\ \A j \in (i + 1)..Len(llm_text) :
                              llm_text[j] # FINAL_ANSWER_TOKEN
           behind == SubSeq(llm_text, marker + 1, Len(llm_text))
           first == CHOOSE a \in 1..(Len(behind) + 1) :
                        /\ \A k \in 1..(a - 1) : behind[k] \in Whitespace
                        /\ a <= Len(behind) => behind[a] \notin Whitespace
           last == CHOOSE b \in 0..Len(behind) :
                        /\ \A k \in (b + 1)..Len(behind) : behind[k] \in Whitespace
                        /\ b >= 1 => behind[b] \notin Whitespace
       IN /\ ~parsed.raised
          /\ parsed.tool = "Final Answer"
          /\ parsed.tool_input = Join(SubSeq(behind, first, last))

\* a text with a complete action block before the marker and another one behind
\* it was parsed as a final answer
C11_Witness ==
    /\ parsed # NoParse
    /\ parsed.tool = "Final Answer"
    /\ \E i, j, k, l, m \in DOMAIN llm_text :
          /\ i < j /\ j < k /\ k < l /\ l < m
          /\ llm_text[i] = ACTION_TOKEN
          /\ llm_text[j] = ACTION_INPUT_TOKEN
          /\ llm_text[k] = FINAL_ANSWER_TOKEN
          /\ llm_text[l] = ACTION_TOKEN
          /\ llm_text[m] = ACTION_INPUT_TOKEN

\* C12: on a text without the final-answer marker that _parse accepts, the tool
\* name and the tool input both come from the first Action / Action Input
\* block: the name is text between its two labels, and the input is text behind
\* its input label that ends before the action label of any later block.
C12_OnlyFirstBlockHonored ==
    (/\ parsed # NoParse /\ ~parsed.raised
     /\ \A i \in DOMAIN llm_text : llm_text[i] # FINAL_ANSWER_TOKEN)
    => LET inputs == { j \in DOMAIN llm_text : llm_text[j] = ACTION_INPUT_TOKEN }
           i == Min({ a \in DOMAIN llm_text :
                        llm_text[a] = ACTION_TOKEN /\ \E j \in inputs : j > a })
           j == Min({ b \in inputs : b > i })
           later == { a \in (j + 1)..Len(llm_text) :
                        llm_text[a] = ACTION_TOKEN /\ \E b \in inputs : b > a }
           end == IF later = {} THEN Len(llm_text) ELSE Min(later) - 1
       IN /\ \E a \in (i + 1)..j, b \in i..(j - 1) :
                parsed.tool = Join(SubSeq(llm_text, a, b))
          /\ \E k \in j..end :
                parsed.tool_input =
                    Join(Strip(Strip(LStrip(SubSeq(llm_text, j + 1, k), Whitespace),
                                     {SP}), {QUOTE}))

\* text with neither the final-answer marker nor an action label that has an
\* input label behind it
Unparsable(text) ==
    /\ text # <<>>
    /\ \A i \in DOMAIN text : text[i] # FINAL_ANSWER_TOKEN
    /\ ~ \E i \in DOMAIN text, j \in DOMAIN text :
           i < j /\ text[i] = ACTION_TOKEN /\ text[j] = ACTION_INPUT_TOKEN

\* C13: a round whose model text holds neither the final-answer marker nor an
\* action label followed by an input label ends the run with the parser's
\* error handed to the caller; that round calls no tool and writes no memory
\* entry.
C13_ParseErrorIsFatal ==
    [][ (enh'.n_generate = enh.n_generate + 1 /\ Unparsable(enh'.generated))
        => /\ enh'.pc = "done"
           /\ enh_out'.kind = "raise"
           /\ enh_out'.exc.type = "ValueError"
           /\ enh_out'.exc.message =
                  "Output of LLM is not parsable for next tool use: "
                      \o Join(enh'.generated)
           /\ enh'.n_use = enh.n_use
           /\ UNCHANGED <<short_term, long_term, embeddings>> ]_vars

\* a second round, after one that used a tool, got unparsable text: the run
\* stopped with the error and the memory holds only the first round's entry
C13_Witness ==
    /\ enh.pc = "done"
    /\ enh.n_generate = 2
    /\ enh.n_use = 1
    /\ Unparsable(enh.generated)
    /\ enh_out.kind = "raise"
    /\ Len(short_term) = 1

\* C14: in AdvancedAgent.run a failing tool call never ends the run with an
\* exception, and the error text it was turned into is part of the context
\* built in every later round of that run.
C14_ToolFailureFeedsNextContext ==
    /\ ~(adv.pc = "done" /\ adv_out.kind = "raise" /\ adv.action.type = "tool")
    /\ \A i \in DOMAIN adv.previous_responses :
          LET result == adv.previous_responses[i][2] IN
          (/\ \E m \in UseErrors :
                 result = "Error executing tool "
                             \o adv.previous_responses[i][1].tool \o ": " \o m
           /\ adv.n_generate > i)
          => \E k \in DOMAIN adv.context : adv.context[k] = result

\* C15: when the action of an iteration is a final answer, the agent stops
\* there without calling a tool, hands back exactly the payload of the final
\* answer, and the goal's status is completed.
C15_FinalAnswerEndsRun ==
    (adv.pc = "done" /\ adv.action.type = "final_answer")
    => /\ adv_out = AgentReturn("str", adv.action.input)
       /\ adv.current_goal.status = "completed"
       /\ adv.n_use = 0

\* C16: a chain call whose chain names a tool the registry lacks, at whatever
\* position, ends with the not-found error of the chain, and by then no tool
\* was used and no statistics changed.
C16_ChainValidatedEagerly ==
    (/\ mgr.pc = "done"
     /\ mgr.op = "execute_tool_chain"
     /\ mgr.chain_name \in DOMAIN tool_chains
     /\ \E i \in DOMAIN tool_chains[mgr.chain_name] :
            tool_chains[mgr.chain_name][i] \notin DOMAIN tools)
    => /\ outcome.kind = "raise"
       /\ outcome.exc.type = "ValueError"
       /\ obs.uses = <<>>
       /\ \A t \in ToolNames : obs.execs[t] = 0
       /\ tool_stats = obs.stats0

\* C17: a chain call under a name that was never defined ends at once with
\* the error "Tool chain '...' not found": no tool is entered, and the
\* statistics, the caches and the chain definitions stay as they were.
C17_UndefinedChainFailsFirst ==
    [][ (/\ mgr.pc = "idle"
         /\ mgr'.op = "execute_tool_chain"
         /\ mgr'.chain_name \notin DOMAIN tool_chains)
        => /\ mgr'.pc = "done"
           /\ outcome'.kind = "raise"
           /\ outcome'.exc.type = "ValueError"
           /\ outcome'.exc.message =
                  "Tool chain '" \o mgr'.chain_name \o "' not found"
           /\ use' = NoUse
           /\ UNCHANGED <<tool_stats, tool_chains, result_cache>> ]_vars

\* an undefined chain name was asked for on a manager that has a chain
\* defined and statistics from an earlier call
C17_Witness ==
    /\ mgr.pc = "done"
    /\ mgr.op = "execute_tool_chain"
    /\ mgr.chain_name = NoChain
    /\ outcome.kind = "raise"
    /\ DOMAIN tool_chains # {}
    /\ TotalUsage > 0

\* C20: between the tools of a chain and at the end of every manager call,
\* each tool's usage_count has grown by the number of use() calls made on it,
\* whatever the number of attempts inside them, its error_count by one if its
\* use() raised and its success_count by one for every use() that returned;
\* the same law holds for execute_tool and for the members of a chain.
C20_StatsOncePerCall ==
    mgr.pc \in {"chain_loop", "done"}
    => \A t \in DOMAIN tools :
          LET calls == Cardinality({ i \in DOMAIN obs.uses : obs.uses[i].tool = t })
              raised == IF use.pc = "raised" /\ use.tool = t THEN 1 ELSE 0
          IN /\ tool_stats[t].usage_count = obs.stats0[t].usage_count + calls
             /\ tool_stats[t].error_count = obs.stats0[t].error_count + raised
             /\ tool_stats[t].success_count =
                    obs.stats0[t].success_count + calls - raised

\* a chain of two tools has returned, the second after two attempts, and
\* both tools were used once
C20_Witness ==
    /\ mgr.pc = "done"
    /\ mgr.op = "execute_tool_chain"
    /\ outcome.kind = "return"
    /\ Len(obs.uses) = 2
    /\ obs.uses[1].tool # obs.uses[2].tool
    /\ Len(obs.attempts) = 2
    /\ \A t \in DOMAIN tools : tool_stats[t].usage_count = 1

\* C18: after every update the goal's progress lies between 0 and 1, and as
\* long as the goal is the same an update never lowers it.
C18_ProgressClampedAndMonotone ==
    [][ /\ 0 <= adv'.current_goal.progress
        /\ adv'.current_goal.progress <= One
        /\ adv'.runs = adv.runs
              => adv'.current_goal.progress >= adv.current_goal.progress ]_vars

C21_LowConfidenceFallsBack ==
    (adv.action.type = "tool" /\ Confidence < adv.confidence_threshold)
    => /\ adv.action = FallbackAction
       /\ ~(adv.pc = "done" /\ adv_out.kind = "raise")

\* C22: every round of EnhancedAgent.run calls llm.generate exactly once, and
\* when that call raises the run ends there with the model's error: no tool
\* is used and no memory entry is written in that round, and no round
\* follows.
C22_LLMFailureIsFatal ==
    [][ /\ enh'.n_generate = enh'.num_loops
        /\ enh'.n_generate \in {enh.n_generate, enh.n_generate + 1, 0}
        /\ (enh.pc = "loop" /\ enh_out'.kind = "raise" /\ enh_out'.exc = LLMError)
           => /\ enh'.pc = "done"
              /\ enh'.n_generate = enh.n_generate + 1
              /\ enh'.n_use = enh.n_use
              /\ UNCHANGED <<short_term, long_term, embeddings>>
        /\ enh.pc = "done" => enh'.pc = "idle" ]_vars

\* the second round's generate call raised after a first round that used a
\* tool; the run is over with the model's error
C22_Witness ==
    /\ enh.pc = "done"
    /\ enh_out = AgentRaise(LLMError)
    /\ enh.n_generate = 2
    /\ enh.n_use = 1

\* C23: a tool's cache gains entries only under the raw input of the use()
\* call in progress; an entry stays as it is until the whole cache is emptied,
\* which happens only between calls; a use() whose raw input is cached is
\* answered with the entry, and one whose input is not cached is not answered
\* without going on to the tool.
C23_CacheKeyedOnRawInput ==
    [][ /\ \A t \in DOMAIN tools :
              /\ \/ result_cache'[t] = <<>> /\ mgr.pc = "idle" /\ mgr'.pc = "idle"
                 \/ \A x \in DOMAIN result_cache[t] :
                       /\ x \in DOMAIN result_cache'[t]
                       /\ result_cache'[t][x] = result_cache[t][x]
              /\ \A x \in DOMAIN result_cache'[t] \ DOMAIN result_cache[t] :
                    /\ use.pc = "loop"
                    /\ use.tool = t
                    /\ use.input_text = x
                    /\ result_cache'[t][x] = use'.result
        /\ (use.pc = "begin" /\ tools[use.tool].cache_results)
           => IF use.input_text \in DOMAIN result_cache[use.tool]
              THEN /\ use'.pc = "returned"
                   /\ use'.result = result_cache[use.tool][use.input_text]
                   /\ obs'.execs = obs.execs
              ELSE use'.pc \in {"loop", "raised"} ]_vars

\* after a cached call and a clear_cache, a second call was not answered from
\* the cache: the tool ran again and the cache holds the new entry alone
C23_Witness ==
    /\ mgr.pc = "done" /\ mgr.op = "execute_tool"
    /\ mgr.tool_name \in DOMAIN tools
    /\ tools[mgr.tool_name].cache_results
    /\ obs.stats0[mgr.tool_name].success_count = 1
    /\ tool_stats[mgr.tool_name].success_count = 2
    /\ ~obs.hit
    /\ obs.execs[mgr.tool_name] >= 1
    /\ DOMAIN result_cache[mgr.tool_name] = {mgr.initial_input}

\* C24: when a chain call ends because one of its tools raised, the error
\* handed to the caller carries the name of that tool.
C24_ChainErrorNamesTool ==
    (/\ mgr.pc = "done"
     /\ mgr.op = "execute_tool_chain"
     /\ obs.first_fail # 0)
    => /\ outcome.kind = "raise"
       /\ outcome.exc.tool_name =
              tool_chains[mgr.chain_name][obs.first_fail]

\* C25: every round of EnhancedAgent.run that executed a tool call, whether
\* the call returned or raised, appends exactly one short-term memory entry.
C25_OneEntryPerExecutedAction ==
    [][ enh'.n_use = enh.n_use + 1
        => Len(added'.short) = Len(added.short) + 1 ]_vars

\* C26: after any sequence of add_long_term calls long_term holds at most
\* max_long_term entries, and they are the entries added last, in the order
\* they were added.
C26_LongTermFifoBound ==
    LET n == Len(added.long)
        cap == mem_cfg.max_long_term
        keep == IF n < cap THEN n ELSE cap
    IN /\ Len(long_term) <= cap
       /\ [i \in 1..Len(long_term) |-> long_term[i].timestamp]
             = SubSeq(added.long, n - keep + 1, n)

\* a store of capacity 2 was handed three long-term entries, the last two
\* under one key, and holds those two
C26_Witness ==
    /\ mem_cfg.max_long_term = 2
    /\ Len(added.long) = 3
    /\ Len(long_term) = 2
    /\ long_term[1].timestamp = added.long[2]
    /\ long_term[2].timestamp = added.long[3]
    /\ long_term[1].key = long_term[2].key

\* C27: a round of AdvancedAgent.run whose tool call failed, so that its result
\* is the error text, leaves the goal's progress where it was.
C27_ProgressOnlyOnSuccess ==
    [][ (/\ Len(adv'.previous_responses) = Len(adv.previous_responses) + 1
         /\ \E m \in UseErrors :
               adv'.previous_responses[Len(adv'.previous_responses)][2]
                  = "Error executing tool " \o adv'.action.tool \o ": " \o m)
        => adv'.current_goal.progress = adv.current_goal.progress ]_vars

\* C28: while EnhancedAgent.run(q) is under way the agent's goal is q and its
\* sub-goals are the decomposition of q, whatever was run before.
C28_GoalIsQuestionOfRun ==
    enh.pc \in {"loop", "done"}
    => /\ enh.current_goal = enh.question
       /\ enh.sub_goals = DecomposeGoal(enh.question)

\* C29: in a use() call that is not answered from the cache, the number of
\* backoff waits is the number of failed attempts that another attempt
\* follows: j - 1 once attempt j has succeeded, max_retries - 1 once all
\* max_retries attempts have failed.
C29_BackoffOnlyBetweenAttempts ==
    (use.pc \in {"loop", "returned", "raised"} /\ ~obs.hit
     /\ Len(obs.attempts) >= 1)
    => LET n == Len(obs.attempts)
           max == tools[use.tool].max_retries
       IN /\ n <= max
          /\ use.pc = "returned" => obs.sleeps = n - 1
          /\ use.pc = "raised" => n = max /\ obs.sleeps = max - 1
          /\ use.pc = "loop" => obs.sleeps = IF n = max THEN max - 1 ELSE n

\* a call with max_retries = 2 failed twice and raised after one wait
C29_Witness ==
    /\ use.pc = "raised"
    /\ tools[use.tool].max_retries = 2
    /\ Len(obs.attempts) = 2
    /\ obs.sleeps = 1

\* C30: every registered tool's usage_count is the sum of its success_count
\* and its error_count, and while a manager call runs and at its end the
\* statistics of the tools it has not used are as they were when it began.
C30_UsageIsSuccessPlusError ==
    \A t \in DOMAIN tools :
       /\ tool_stats[t].usage_count
             = tool_stats[t].success_count + tool_stats[t].error_count
       /\ (\A i \in DOMAIN obs.uses : obs.uses[i].tool # t)
             => tool_stats[t] = obs.stats0[t]

\* a chain was aborted by its first tool; the second tool, used once in an
\* earlier call, was not used and its statistics are as before
C30_Witness ==
    /\ mgr.pc = "done"
    /\ mgr.op = "execute_tool_chain"
    /\ obs.first_fail = 1
    /\ Len(tool_chains[mgr.chain_name]) = 2
    /\ LET first == tool_chains[mgr.chain_name][1]
           second == tool_chains[mgr.chain_name][2]
       IN /\ second \in DOMAIN tools
          /\ second # first
          /\ tool_stats[second].usage_count = 1
          /\ tool_stats[first].error_count = 1
          /\ tool_stats[first].usage_count = 1

\* C31: a tool's result_cache holds, under each input, the post-processed
\* result the first successful use() of that input gave since the last
\* clear_cache and nothing else, so a use() that fails adds nothing; with
\* cache_results off the cache stays empty and no use() is answered from it.
C31_CacheHoldsProcessedResults ==
    /\ \A t \in DOMAIN tools :
          IF tools[t].cache_results
          THEN /\ result_cache[t] = first_out[t]
               /\ \A x \in DOMAIN result_cache[t] :
                     \E o \in ExecOutcomes :
                        /\ o.kind = "ok"
                        /\ ApplyAll(tools[t].post_processors, o.value).ok
                        /\ result_cache[t][x]
                              = ApplyAll(tools[t].post_processors, o.value).value
          ELSE result_cache[t] = <<>>
    /\ (use.pc \notin {"none", "begin"} /\ obs.hit)
       => tools[use.tool].cache_results

\* a caching tool with post-processors has one result cached, and a call with
\* another input has used up its attempts: the cache is as it was
C31_Witness ==
    /\ use.pc = "raised"
    /\ tools[use.tool].cache_results
    /\ tools[use.tool].post_processors # <<>>
    /\ Len(obs.attempts) = tools[use.tool].max_retries
    /\ Len(obs.attempts) >= 1
    /\ DOMAIN result_cache[use.tool] # {}
    /\ use.input_text \notin DOMAIN result_cache[use.tool]

\* C32: in a use() that was not answered from the cache the tool is invoked at
\* most max_retries times, and every invocation but the last one of the call
\* raised or timed out: an invocation that returned a result, also one whose
\* result a post-processor then rejected, is followed by no other invocation.
C32_NoInvocationAfterResult ==
    (use.pc \in {"loop", "returned", "raised"} /\ ~obs.hit)
    => /\ Len(obs.attempts) <= tools[use.tool].max_retries
       /\ \A i \in 1..(Len(obs.attempts) - 1) :
             obs.attempts[i].kind \in {"exception", "timeout"}

\* C33: after any add_long_term calls of an AgentMemory, reuse of a key
\* included, every entry of long_term has an embedding stored under its key,
\* and every key of embeddings is the key of an entry of long_term, so a
\* get_relevant_memory call has not failed to find an entry.
C33_LiveEntryHasEmbedding ==
    mem_cfg.cls = "AgentMemory"
    => /\ \A j \in DOMAIN long_term :
             long_term[j].key \in OrderedKeys(embeddings)
       /\ \A k \in OrderedKeys(embeddings) :
             \E j \in DOMAIN long_term : long_term[j].key = k
       /\ ~relevant.raised

\* C34: a round of EnhancedAgent.run whose parsed tool name is neither the
\* final answer nor a registered tool ends the run with ValueError "Unknown
\* tool: <name>" handed to the caller, uses no tool and leaves short-term and
\* long-term memory as they were; long-term memory changes only in the step
\* that returns a final answer, and then by one new entry whose key is the
\* question of the run and whose value is the answer returned.
C34_UnknownToolWritesNothing ==
    [][ /\ (/\ enh'.n_generate = enh.n_generate + 1
            /\ ~Parse(enh'.generated).raised
            /\ Parse(enh'.generated).tool # "Final Answer"
            /\ Parse(enh'.generated).tool \notin enh.tools)
           => /\ enh'.pc = "done"
              /\ enh_out' = AgentRaise(PlainExc("ValueError",
                     "Unknown tool: " \o Parse(enh'.generated).tool))
              /\ enh'.n_use = enh.n_use
              /\ UNCHANGED <<short_term, long_term, added>>
        /\ (long_term' # long_term \/ added'.long # added.long)
           => LET n == Len(long_term') IN
              /\ enh.pc = "loop" /\ enh'.pc = "done"
              /\ enh_out'.kind = "return" /\ enh_out'.type = "str"
              /\ Parse(enh'.generated).tool = "Final Answer"
              /\ enh_out'.value = Parse(enh'.generated).tool_input
              /\ n >= 1
              /\ long_term'[n].key = enh.question
              /\ long_term'[n].value = enh_out'.value
              /\ \E d \in {0, 1} :
                    /\ n = Len(long_term) + 1 - d
                    /\ d = 1 => n = mem_cfg.max_long_term
                    /\ \A i \in 1..(n - 1) : long_term'[i] = long_term[i + d]
              /\ Len(added'.long) = Len(added.long) + 1 ]_vars

\* the second run of an agent, after a first run that stored its final answer,
\* used a tool in its first round and named an unregistered tool in its
\* second: the run is over with the ValueError and the memory holds the one
\* long-term entry of the first run and the one short-term entry of the tool use
C34_Witness ==
    /\ enh.pc = "done"
    /\ enh.runs = 2
    /\ enh.n_generate = 2
    /\ enh.n_use = 1
    /\ enh_out = AgentRaise(PlainExc("ValueError", "Unknown tool: Ghost"))
    /\ Len(short_term) = 1
    /\ Len(long_term) = 1
    /\ long_term[1].value = "Paris"
    /\ Len(added.long) = 1
====
